---- MODULE Spec2Model ----
(***************************************************************************)
(* Model of the Railway wrapper for WhisperLive (src/railway_wrapper.py):  *)
(* the lazily started backend process, the per-connection websocket        *)
(* handler and the two relay loops of proxy_websocket.                      *)
(*                                                                         *)
(* The asyncio event loop runs one coroutine at a time, so every action    *)
(* below is the code between two suspension points (await) of one          *)
(* coroutine.  The external peer, the backend process and the clock are    *)
(* the environment.                                                        *)
(***************************************************************************)
EXTENDS Integers, Sequences, FiniteSets, TLC

\* ---------------------------------------------------------------- bounds
MaxSessions == 2        \* upgrade requests that arrive
MaxMsgs == 2            \* messages sent by the peers, all sessions together
NumPayloads == 1        \* distinct payloads
MaxRequests == 2        \* POST /transcribe requests

\* ------------------------------------------------------------- constants
GRACE == 3              \* asyncio.sleep(3) after Popen

Sessions == 1..MaxSessions
Payloads == 1..NumPayloads

VARIABLES
    whisper_server,   \* self.whisper_server: 0 is None, else index in procs
    procs,            \* every process Popen created: alive, listening, age
    pc,               \* position of websocket_handler for each request
    mine,             \* the process this call of ensure_whisper_server spawned (0: none)
    ensureRet,        \* how ensure_whisper_server ended for the session
    extOpen,          \* not client_ws.closed
    peerClosed,       \* client_ws has yielded the external peer's close
    intOpen,          \* server_ws is open
    intDropped,       \* the internal connection dropped while open
    relayed,          \* the session reached the gather of both loops
    c2s, s2c,         \* state of each forwarding loop: idle, run, done
    extSent,          \* messages of the external peer that client_ws yielded, in order
    intDelivered,     \* frames written to server_ws, in order
    intSent,          \* frames of the backend that server_ws yielded, in order
    extDelivered,     \* frames written to client_ws, in order
    httpResp,         \* the last plain HTTP response the wrapper returned
    running,          \* the wrapper process has not exited
    api               \* whisper_api_server.py: the request in hand and its effects

vars == <<whisper_server, procs, pc, mine, ensureRet, extOpen, peerClosed,
          intOpen, intDropped, relayed, c2s, s2c, extSent,
          intDelivered, intSent, extDelivered, httpResp, running, api>>

supVars == <<whisper_server, procs, mine, ensureRet>>
connVars == <<extOpen, peerClosed, intOpen, intDropped, relayed, c2s, s2c>>
msgVars == <<extSent, intDelivered, intSent, extDelivered>>
sideVars == <<httpResp, running, api>>

\* ------------------------------------------------------------ data types
\* An aiohttp WSMessage: its type and its data; TEXT carries a str, BINARY bytes.
WSMessage(type, py, v) == [type |-> type, data |-> [py |-> py, v |-> v]]

ExtMessages ==
    {WSMessage("TEXT", "str", v) : v \in Payloads}
    \cup {WSMessage("BINARY", "bytes", v) : v \in Payloads}
    \cup {WSMessage("ERROR", "exc", 0), WSMessage("PONG", "bytes", 0)}

\* A frame on a websocket wire: kind and payload.
Frame(kind, v) == [kind |-> kind, v |-> v]

Frames == {Frame(k, v) : k \in {"text", "binary"}, v \in Payloads}

\* websockets' send(data): a str goes out as a text frame, bytes as binary.
WsSend(data) == Frame(IF data.py = "str" THEN "text" ELSE "binary", data.v)

\* websockets' iteration: a text frame is yielded as str, a binary one as bytes.
WsRecv(f) == [py |-> IF f.kind = "text" THEN "str" ELSE "bytes", v |-> f.v]

\* aiohttp's send_str / send_bytes.
SendStr(msg) == Frame("text", msg.v)
SendBytes(msg) == Frame("binary", msg.v)

NoRet == [res |-> "none", age |-> -1, ownAlive |-> TRUE]

TotalSent ==
    LET RECURSIVE Sum(_)
        Sum(n) == IF n = 0 THEN 0
                  ELSE Len(extSent[n]) + Len(intSent[n]) + Sum(n - 1)
    IN Sum(MaxSessions)

\* A plain HTTP response: the route and method that produced it, its status.
NoResp == [path |-> "", method |-> "", status |-> 0]

\* whisper_api_server.py before its first request: no request in hand, no
\* temporary file on disk.
NoReq == [hasAudio |-> FALSE, filename |-> << >>, paramsOk |-> TRUE,
          saveOk |-> TRUE, transcribeOk |-> TRUE]

ApiIdle == [pc |-> "idle", req |-> NoReq, status |-> 0, temps |-> 0,
            created |-> FALSE, called |-> FALSE, served |-> 0]

\* ------------------------------------------------------------------ Init
Init ==
    /\ whisper_server = 0
    /\ procs = << >>
    /\ pc = [s \in Sessions |-> "idle"]
    /\ mine = [s \in Sessions |-> 0]
    /\ ensureRet = [s \in Sessions |-> NoRet]
    /\ extOpen = [s \in Sessions |-> FALSE]
    /\ peerClosed = [s \in Sessions |-> FALSE]
    /\ intOpen = [s \in Sessions |-> FALSE]
    /\ intDropped = [s \in Sessions |-> FALSE]
    /\ relayed = [s \in Sessions |-> FALSE]
    /\ c2s = [s \in Sessions |-> "idle"]
    /\ s2c = [s \in Sessions |-> "idle"]
    /\ extSent = [s \in Sessions |-> << >>]
    /\ intDelivered = [s \in Sessions |-> << >>]
    /\ intSent = [s \in Sessions |-> << >>]
    /\ extDelivered = [s \in Sessions |-> << >>]
    /\ httpResp = NoResp
    /\ running = TRUE
    /\ api = ApiIdle

\* ------------------------------------------------------- the supervisor
\* Popen.poll(): None (0 here) while the process runs, else its exit status.
Poll(h) == IF procs[h].alive THEN 0 ELSE 1

\* Variant of the line-82 test that spawns whatever is tracked.
NeedsSpawn_Always(h) == TRUE

\* line 82: self.whisper_server is None or self.whisper_server.poll() is not None
NeedsSpawn(h) == IF h = 0 THEN TRUE ELSE Poll(h) # 0

\* The age of the tracked process, as far as the grace period can tell.
TrackedAge(h) == IF h = 0 THEN -1 ELSE procs[h].age

\* proxy_websocket, line 100: websockets.connect succeeds when a backend
\* listens on the internal port; both loops are handed to gather.  Else it
\* raises, lines 132-133 log it, proxy_websocket returns normally and
\* websocket_handler returns ws (lines 75-78).
Listening == {p \in DOMAIN procs : procs[p].alive /\ procs[p].listening}

Connect(s) ==
    IF Listening # {}
    THEN /\ intOpen' = [intOpen EXCEPT ![s] = TRUE]
         /\ relayed' = [relayed EXCEPT ![s] = TRUE]
         /\ c2s' = [c2s EXCEPT ![s] = "run"]
         /\ s2c' = [s2c EXCEPT ![s] = "run"]
         /\ pc' = [pc EXCEPT ![s] = "relaying"]
    ELSE /\ pc' = [pc EXCEPT ![s] = "done"]
         /\ UNCHANGED <<intOpen, relayed, c2s, s2c>>

\* Variant that waits out a grace period although a live process is tracked.
UpgradeAlive_Waits(s) ==
    /\ pc[s] = "idle"
    /\ IF s = 1 THEN TRUE ELSE pc[s - 1] # "idle"
    /\ ~NeedsSpawn(whisper_server)
    /\ extOpen' = [extOpen EXCEPT ![s] = TRUE]
    /\ mine' = [mine EXCEPT ![s] = whisper_server]
    /\ pc' = [pc EXCEPT ![s] = "sleeping"]
    /\ UNCHANGED <<whisper_server, procs, ensureRet, peerClosed, intOpen, intDropped,
                   relayed, c2s, s2c, msgVars>>
    /\ UNCHANGED sideVars

\* websocket_handler, lines 59-70, with ensure_whisper_server's line 82
\* false: the upgrade is accepted, a live process is tracked, the call returns
\* at once and proxy_websocket connects.  (Between ws.prepare and the connect
\* the handler reads no shared state but the handle, so the steps are one.)
UpgradeAlive(s) ==
    /\ pc[s] = "idle"
    /\ IF s = 1 THEN TRUE ELSE pc[s - 1] # "idle"
    /\ ~NeedsSpawn(whisper_server)
    /\ extOpen' = [extOpen EXCEPT ![s] = TRUE]
    /\ ensureRet' = [ensureRet EXCEPT ![s] =
           [res |-> "ready", age |-> TrackedAge(whisper_server), ownAlive |-> TRUE]]
    /\ Connect(s)
    /\ UNCHANGED <<whisper_server, procs, mine, peerClosed, intDropped, msgVars>>
    /\ UNCHANGED sideVars

\* websocket_handler, lines 59-67, with ensure_whisper_server's lines 82-91:
\* the upgrade is accepted, Popen succeeds, the handle is stored and the
\* coroutine starts its sleep.
UpgradeSpawn(s) ==
    /\ pc[s] = "idle"
    /\ IF s = 1 THEN TRUE ELSE pc[s - 1] # "idle"
    /\ NeedsSpawn(whisper_server)
    /\ extOpen' = [extOpen EXCEPT ![s] = TRUE]
    /\ procs' = Append(procs, [alive |-> TRUE, listening |-> FALSE, age |-> 0])
    /\ whisper_server' = Len(procs) + 1
    /\ mine' = [mine EXCEPT ![s] = Len(procs) + 1]
    /\ pc' = [pc EXCEPT ![s] = "sleeping"]
    /\ UNCHANGED <<ensureRet, peerClosed, intOpen, intDropped, relayed, c2s, s2c, msgVars>>
    /\ UNCHANGED sideVars

\* Variant in which the Popen error is swallowed and the handler goes on to
\* proxy_websocket.
UpgradeSpawnFail_Swallowed(s) ==
    /\ pc[s] = "idle"
    /\ IF s = 1 THEN TRUE ELSE pc[s - 1] # "idle"
    /\ NeedsSpawn(whisper_server)
    /\ ensureRet' = [ensureRet EXCEPT ![s] =
           [res |-> "error", age |-> -1, ownAlive |-> FALSE]]
    /\ extOpen' = [extOpen EXCEPT ![s] = TRUE]
    /\ Connect(s)
    /\ UNCHANGED <<whisper_server, procs, mine, peerClosed, intDropped, msgVars>>
    /\ UNCHANGED sideVars

\* Variant in which the except branch closes every session's connection.
UpgradeSpawnFail_CloseAll(s) ==
    /\ pc[s] = "idle"
    /\ IF s = 1 THEN TRUE ELSE pc[s - 1] # "idle"
    /\ NeedsSpawn(whisper_server)
    /\ ensureRet' = [ensureRet EXCEPT ![s] =
           [res |-> "error", age |-> -1, ownAlive |-> FALSE]]
    /\ extOpen' = [t \in Sessions |-> FALSE]
    /\ pc' = [pc EXCEPT ![s] = "done"]
    /\ UNCHANGED <<whisper_server, procs, mine, peerClosed, intOpen, intDropped,
                   relayed, c2s, s2c, msgVars>>
    /\ UNCHANGED sideVars

\* websocket_handler, lines 59-67 and 72-78, with ensure_whisper_server's
\* line 84: Popen raises (no process is created); the exception reaches the
\* handler's except, which closes ws.
UpgradeSpawnFail(s) ==
    /\ pc[s] = "idle"
    /\ IF s = 1 THEN TRUE ELSE pc[s - 1] # "idle"
    /\ NeedsSpawn(whisper_server)
    /\ ensureRet' = [ensureRet EXCEPT ![s] =
           [res |-> "error", age |-> -1, ownAlive |-> FALSE]]
    /\ extOpen' = [extOpen EXCEPT ![s] = FALSE]
    /\ pc' = [pc EXCEPT ![s] = "done"]
    /\ UNCHANGED <<whisper_server, procs, mine, peerClosed, intOpen, intDropped,
                   relayed, c2s, s2c, msgVars>>
    /\ UNCHANGED sideVars

\* ensure_whisper_server, lines 91-92, and websocket_handler, line 70: the
\* sleep is over, the call returns and proxy_websocket connects.
SleepDone(s) ==
    /\ pc[s] = "sleeping"
    /\ procs[mine[s]].age >= GRACE
    /\ ensureRet' = [ensureRet EXCEPT ![s] =
           [res |-> "ready", age |-> TrackedAge(whisper_server),
            ownAlive |-> procs[mine[s]].alive]]
    /\ Connect(s)
    /\ UNCHANGED <<whisper_server, procs, mine, extOpen, peerClosed, intDropped, msgVars>>
    /\ UNCHANGED sideVars

\* Variant in which the relay is over as soon as one loop is.
GatherReturn_First(s, c, d) ==
    IF c = "done" \/ d = "done"
    THEN /\ intOpen' = [intOpen EXCEPT ![s] = FALSE]
         /\ pc' = [pc EXCEPT ![s] = "done"]
    ELSE UNCHANGED <<intOpen, pc>>

\* lines 126-130 and 100: gather returns once both loops are over, the
\* async with closes server_ws, proxy_websocket and websocket_handler return
\* (lines 75-78).  c and d are the loops' states after the step.
GatherReturn(s, c, d) ==
    IF c = "done" /\ d = "done"
    THEN /\ intOpen' = [intOpen EXCEPT ![s] = FALSE]
         /\ pc' = [pc EXCEPT ![s] = "done"]
    ELSE UNCHANGED <<intOpen, pc>>

\* lines 105-108: a TEXT or BINARY message goes out as server_ws.send(msg.data).
\* Variant that sends every payload as text.
ForwardToServer_AsText(msg) == Frame("text", msg.data.v)

ForwardToServer(msg) == WsSend(msg.data)

\* lines 118-121: a str goes out by send_str, bytes by send_bytes.
ForwardToClient(msg) == IF msg.py = "str" THEN SendStr(msg) ELSE SendBytes(msg)

\* Variant whose last branch forwards every message that is not an ERROR.
Forwardable_All(msg) == msg.type # "ERROR"

\* lines 105 and 107: the types client_to_server forwards.
Forwardable(msg) == msg.type = "TEXT" \/ msg.type = "BINARY"

\* Variant in which the error of server_ws.send leaves proxy_websocket and
\* reaches websocket_handler's except.
C2SRecv_Raises(s, msg) ==
    /\ c2s[s] = "run"
    /\ TotalSent < MaxMsgs
    /\ extSent' = [extSent EXCEPT ![s] = Append(@, msg)]
    /\ LET forward == Forwardable(msg)
           raised == forward /\ ~intOpen[s]
           over == raised \/ msg.type = "ERROR"
           c == IF over THEN "done" ELSE "run"
       IN /\ intDelivered' = [intDelivered EXCEPT ![s] =
                 IF forward /\ intOpen[s] THEN Append(@, ForwardToServer(msg)) ELSE @]
          /\ extOpen' = [extOpen EXCEPT ![s] =
                 IF msg.type = "ERROR" \/ raised THEN FALSE ELSE @]
          /\ c2s' = [c2s EXCEPT ![s] = c]
          /\ IF raised
             THEN /\ pc' = [pc EXCEPT ![s] = "done"]
                  /\ UNCHANGED intOpen
             ELSE GatherReturn(s, c, s2c[s])
    /\ UNCHANGED <<supVars, peerClosed, intDropped, relayed, s2c, intSent, extDelivered>>
    /\ UNCHANGED sideVars

\* client_to_server, lines 104-113: client_ws yields the next message of the
\* external peer.
C2SRecv(s, msg) ==
    /\ c2s[s] = "run"
    /\ TotalSent < MaxMsgs
    /\ extSent' = [extSent EXCEPT ![s] = Append(@, msg)]
    /\ LET forward == Forwardable(msg)
           \* server_ws.send raises ConnectionClosed, caught at line 112;
           \* an ERROR message breaks out of the loop
           over == (forward /\ ~intOpen[s]) \/ msg.type = "ERROR"
           c == IF over THEN "done" ELSE "run"
       IN /\ intDelivered' = [intDelivered EXCEPT ![s] =
                 IF forward /\ intOpen[s] THEN Append(@, ForwardToServer(msg)) ELSE @]
          \* aiohttp has closed ws when it yields an ERROR message
          /\ extOpen' = [extOpen EXCEPT ![s] = IF msg.type = "ERROR" THEN FALSE ELSE @]
          /\ c2s' = [c2s EXCEPT ![s] = c]
          /\ GatherReturn(s, c, s2c[s])
    /\ UNCHANGED <<supVars, peerClosed, intDropped, relayed, s2c, intSent, extDelivered>>
    /\ UNCHANGED sideVars

\* client_to_server, line 104: the external peer closes; client_ws yields the
\* close, aiohttp closes ws and the iteration stops.
C2SEnd(s) ==
    /\ c2s[s] = "run"
    /\ c2s' = [c2s EXCEPT ![s] = "done"]
    /\ extOpen' = [extOpen EXCEPT ![s] = FALSE]
    /\ peerClosed' = [peerClosed EXCEPT ![s] = TRUE]
    /\ GatherReturn(s, "done", s2c[s])
    /\ UNCHANGED <<supVars, intDropped, relayed, s2c, msgVars>>
    /\ UNCHANGED sideVars

\* server_to_client, lines 117-123: server_ws yields the next frame of the
\* backend.
S2CRecv(s, f) ==
    /\ s2c[s] = "run"
    /\ intOpen[s]
    /\ TotalSent < MaxMsgs
    /\ intSent' = [intSent EXCEPT ![s] = Append(@, f)]
    /\ LET msg == WsRecv(f)
           \* send_str / send_bytes raises on the closed ws, caught at line 122
           d == IF extOpen[s] THEN "run" ELSE "done"
       IN /\ extDelivered' = [extDelivered EXCEPT ![s] =
                 IF extOpen[s] THEN Append(@, ForwardToClient(msg)) ELSE @]
          /\ s2c' = [s2c EXCEPT ![s] = d]
          /\ GatherReturn(s, c2s[s], d)
    /\ UNCHANGED <<supVars, extOpen, peerClosed, intDropped, relayed, c2s,
                   extSent, intDelivered>>
    /\ UNCHANGED sideVars

\* ------------------------------------------------------ the environment
\* The backend process (run_server.py --port 9091) starts to listen.
BackendListen(p) ==
    /\ procs[p].alive
    /\ ~procs[p].listening
    /\ procs' = [procs EXCEPT ![p].listening = TRUE]
    /\ UNCHANGED <<whisper_server, pc, mine, ensureRet, connVars, msgVars>>
    /\ UNCHANGED sideVars

\* Variant in which the wrapper restarts the backend as soon as it exits.
BackendExit_Respawn(p) ==
    /\ procs[p].alive
    /\ procs' = Append([procs EXCEPT ![p].alive = FALSE, ![p].listening = FALSE],
                       [alive |-> TRUE, listening |-> FALSE, age |-> 0])
    /\ whisper_server' = Len(procs) + 1
    /\ intOpen' = [s \in Sessions |-> FALSE]
    /\ intDropped' = [s \in Sessions |-> intDropped[s] \/ intOpen[s]]
    /\ s2c' = [s \in Sessions |-> IF intOpen[s] THEN "done" ELSE s2c[s]]
    /\ pc' = [s \in Sessions |-> IF intOpen[s] /\ c2s[s] = "done" THEN "done" ELSE pc[s]]
    /\ UNCHANGED <<mine, ensureRet, extOpen, peerClosed, relayed, c2s, msgVars>>
    /\ UNCHANGED sideVars

\* The backend process exits and its connections drop with it.  For each,
\* server_to_client's iteration (line 117) stops or raises ConnectionClosed,
\* caught at line 122; gather returns if client_to_server is over too.
BackendExit(p) ==
    /\ procs[p].alive
    /\ procs' = [procs EXCEPT ![p].alive = FALSE, ![p].listening = FALSE]
    /\ intOpen' = [s \in Sessions |-> FALSE]
    /\ intDropped' = [s \in Sessions |-> intDropped[s] \/ intOpen[s]]
    /\ s2c' = [s \in Sessions |-> IF intOpen[s] THEN "done" ELSE s2c[s]]
    /\ pc' = [s \in Sessions |-> IF intOpen[s] /\ c2s[s] = "done" THEN "done" ELSE pc[s]]
    /\ UNCHANGED <<whisper_server, mine, ensureRet, extOpen, peerClosed, relayed,
                   c2s, msgVars>>
    /\ UNCHANGED sideVars

\* One second passes; an age of GRACE stands for GRACE or more.
Tick ==
    /\ \E p \in DOMAIN procs : procs[p].age < GRACE
    /\ procs' = [p \in DOMAIN procs |->
                    [procs[p] EXCEPT !.age = IF @ < GRACE THEN @ + 1 ELSE @]]
    /\ UNCHANGED <<whisper_server, pc, mine, ensureRet, connVars, msgVars>>
    /\ UNCHANGED sideVars

\* ------------------------------------------------- plain HTTP requests
\* Variant that reports the backend's health instead of the wrapper's.
HealthCheck_Backend(method) ==
    /\ httpResp' = [path |-> "/health", method |-> method,
                    status |-> IF NeedsSpawn(whisper_server) THEN 503 ELSE 200]
    /\ UNCHANGED <<supVars, pc, connVars, msgVars, running, api>>

\* health_check, lines 37-45 (routes of lines 33-34): GET or HEAD /health.
HealthCheck(method) ==
    /\ httpResp' = [path |-> "/health", method |-> method, status |-> 200]
    /\ UNCHANGED <<supVars, pc, connVars, msgVars, running, api>>

\* Variant without the test of line 50: the request goes on to
\* ensure_whisper_server.
PlainGet_Ensures ==
    /\ httpResp' = [path |-> "/", method |-> "GET", status |-> 200]
    /\ IF NeedsSpawn(whisper_server)
       THEN /\ procs' = Append(procs, [alive |-> TRUE, listening |-> FALSE, age |-> 0])
            /\ whisper_server' = Len(procs) + 1
       ELSE UNCHANGED <<whisper_server, procs>>
    /\ UNCHANGED <<mine, ensureRet, pc, connVars, msgVars, running, api>>

\* websocket_handler, lines 50-57: GET / without an upgrade header.
PlainGet ==
    /\ httpResp' = [path |-> "/", method |-> "GET", status |-> 200]
    /\ UNCHANGED <<supVars, pc, connVars, msgVars, running, api>>

\* signal_handler, lines 140-143 (installed at lines 147-148): sys.exit(0).
\* The process ends and the system closes its sockets; nothing touches the
\* child process.
Shutdown(signum) ==
    /\ running
    /\ running' = FALSE
    /\ extOpen' = [s \in Sessions |-> FALSE]
    /\ intOpen' = [s \in Sessions |-> FALSE]
    /\ UNCHANGED <<supVars, pc, peerClosed, intDropped, relayed, c2s, s2c, msgVars,
                   httpResp, api>>

\* ------------------------------------------------ whisper_api_server.py
\* lines 22-24.  A file name is a sequence of characters.
ALLOWED_EXTENSIONS ==
    {<<"w", "a", "v">>, <<"m", "p", "3">>, <<"m", "4", "a">>, <<"f", "l", "a", "c">>,
     <<"a", "a", "c">>, <<"o", "g", "g">>, <<"w", "m", "a">>, <<"m", "p", "4">>}

\* str.lower() on the characters the requests use.
Lower(c) ==
    CASE c = "W" -> "w"
      [] c = "A" -> "a"
      [] c = "V" -> "v"
      [] OTHER -> c

LowerSeq(f) == [i \in 1..Len(f) |-> Lower(f[i])]

\* filename.rsplit('.', 1)[1]: what follows the last dot.
RSplitExt(f) ==
    LET last == CHOOSE i \in 1..Len(f) :
                   f[i] = "." /\ \A j \in (i + 1)..Len(f) : f[j] # "."
    IN SubSeq(f, last + 1, Len(f))

\* allowed_file, lines 26-28.
allowed_file(filename) ==
    IF \E i \in 1..Len(filename) : filename[i] = "."
    THEN LowerSeq(RSplitExt(filename)) \in ALLOWED_EXTENSIONS
    ELSE FALSE

\* The uploads tried: no name, no dot, allowed and refused extensions, upper
\* case, two dots, a trailing dot.
ApiFilenames ==
    {<< >>, <<"a">>, <<"a", ".", "w", "a", "v">>, <<"a", ".", "W", "A", "V">>,
     <<"a", ".", "t", "x", "t">>, <<"w", "a", "v", ".", "t", "x", "t">>,
     <<"a", ".", "b", ".", "m", "p", "3">>, <<"a", ".">>}

\* A POST /transcribe: whether it has an `audio` part, the part's file name,
\* whether float(temperature) parses, whether file.save and model.transcribe
\* succeed.
ApiRequests ==
    [hasAudio : BOOLEAN, filename : ApiFilenames, paramsOk : BOOLEAN,
     saveOk : BOOLEAN, transcribeOk : BOOLEAN]

\* The validation of lines 44-52 answers 400.
Rejected(req) ==
    IF ~req.hasAudio THEN TRUE
    ELSE IF req.filename = << >> THEN TRUE
    ELSE ~allowed_file(req.filename)

apiFrame == <<supVars, pc, connVars, msgVars, httpResp, running>>

\* transcribe_audio, lines 42-61: validation, parameters, the temporary file
\* and the save of the upload into it.  An exception of float() or of
\* file.save reaches the outer except of lines 89-91.
ApiValidate(req) ==
    /\ api.pc = "idle"
    /\ api.served < MaxRequests
    /\ api' =
         IF Rejected(req)
         THEN [api EXCEPT !.req = req, !.status = 400, !.created = FALSE,
                          !.called = FALSE, !.served = @ + 1]
         ELSE IF ~req.paramsOk
         THEN [api EXCEPT !.req = req, !.status = 500, !.created = FALSE,
                          !.called = FALSE, !.served = @ + 1]
         ELSE IF ~req.saveOk
         THEN [api EXCEPT !.req = req, !.status = 500, !.created = TRUE,
                          !.called = FALSE, !.temps = @ + 1, !.served = @ + 1]
         ELSE [api EXCEPT !.req = req, !.status = 0, !.created = TRUE,
                          !.called = FALSE, !.temps = @ + 1, !.pc = "saved"]
    /\ UNCHANGED apiFrame

\* transcribe_audio, lines 63-91: model.transcribe, the response, and the
\* os.unlink of the finally.
ApiTranscribe ==
    /\ api.pc = "saved"
    /\ api' = [api EXCEPT !.called = TRUE,
                          !.status = IF api.req.transcribeOk THEN 200 ELSE 500,
                          !.temps = @ - 1, !.pc = "idle", !.served = @ + 1]
    /\ UNCHANGED apiFrame

ApiNext ==
    \/ \E req \in ApiRequests : ApiValidate(req)
    \/ ApiTranscribe

ApiSpec == Init /\ [][ApiNext]_vars

\* ------------------------------------------------------------------ Next
\* The step a session takes by itself, once the event loop runs it.
SessionStep(s) == SleepDone(s)

\* The steps a session takes when its peers or the system make it.
SessionEvent(s) ==
    \/ UpgradeAlive(s)
    \/ UpgradeSpawn(s)
    \/ UpgradeSpawnFail(s)
    \/ \E m \in ExtMessages : C2SRecv(s, m)
    \/ C2SEnd(s)
    \/ \E f \in Frames : S2CRecv(s, f)

Next ==
    \/ \E s \in Sessions : SessionStep(s)
    \/ \E s \in Sessions : SessionEvent(s)
    \/ \E p \in DOMAIN procs : BackendListen(p)
    \/ \E p \in DOMAIN procs : BackendExit(p)
    \/ Tick

Spec == Init /\ [][Next]_vars

\* The event loop runs every coroutine that can run, and time passes; the
\* peers and the backend are under no obligation.
FairSpec ==
    /\ Spec
    /\ \A s \in Sessions : WF_vars(SessionStep(s))
    /\ WF_vars(Tick)

\* The wrapper with its plain HTTP routes.
HttpNext ==
    \/ Next
    \/ \E method \in {"GET", "HEAD"} : HealthCheck(method)
    \/ PlainGet

HttpSpec == Init /\ [][HttpNext]_vars

\* The wrapper until a termination signal ends it; the backend process lives
\* on by itself afterwards.
ServiceNext ==
    \/ running /\ HttpNext
    \/ \E signum \in {"SIGINT", "SIGTERM"} : Shutdown(signum)
    \/ ~running /\ \E p \in DOMAIN procs : BackendExit(p)

ServiceSpec == Init /\ [][ServiceNext]_vars

TypeOK ==
    /\ whisper_server \in 0..Len(procs)
    /\ \A s \in Sessions : pc[s] \in {"idle", "sleeping", "relaying", "done"}

\* ---------------------------------------------------------------- claims
Alive == {p \in DOMAIN procs : procs[p].alive}

\* C1: however many upgrades arrive while the backend is not yet started, at
\* most one backend process is alive in every reachable state, it is the
\* tracked one, a second process exists only after an earlier one has exited,
\* and a session is in or past ensure_whisper_server only if one was spawned.
C1_SingleBackend ==
    /\ Cardinality(Alive) <= 1
    /\ \A p \in Alive : p = whisper_server
    /\ Len(procs) <= 1 + Cardinality(DOMAIN procs \ Alive)
    /\ \A s \in Sessions :
          (pc[s] = "sleeping" \/ ensureRet[s].res = "ready") => Len(procs) >= 1

\* Two upgrades have arrived during the start of one backend: the first is
\* still in its sleep, the second is past ensure_whisper_server.
C1_Witness ==
    /\ MaxSessions >= 2
    /\ Len(procs) = 1
    /\ pc[1] = "sleeping"
    /\ ensureRet[2].res = "ready"

\* C2: ensure_whisper_server returns to no caller before the grace period has
\* elapsed since the spawn of the tracked backend process.
C2_ReturnsAfterGrace ==
    \A s \in Sessions : ensureRet[s].res = "ready" => ensureRet[s].age >= GRACE

\* C3: when a single spawn succeeds and the backend becomes connectable only
\* once the grace period has elapsed, no session ends without relaying.  The
\* premise holds of every behaviour in which the single backend is alive and
\* has not begun to listen, so in such a state no session has ended.
C3_BackendStillStarting ==
    /\ Len(procs) = 1
    /\ procs[1].alive
    /\ ~procs[1].listening
    /\ \A s \in Sessions : ensureRet[s].res # "error"

C3_AllSessionsRelay ==
    C3_BackendStillStarting => \A s \in Sessions : pc[s] = "done" => relayed[s]

\* C4: in each direction the frames delivered are a prefix of the text and
\* binary messages the peer sent, in order, each with its kind and payload.
IsPrefix(a, b) == Len(a) <= Len(b) /\ \A i \in 1..Len(a) : a[i] = b[i]

IsTextOrBinary(m) == m.type \in {"TEXT", "BINARY"}

SentFrames(seq) ==
    LET tb == SelectSeq(seq, IsTextOrBinary)
    IN [i \in 1..Len(tb) |->
           Frame(IF tb[i].type = "TEXT" THEN "text" ELSE "binary", tb[i].data.v)]

C4_RelayPreservesOrderAndKind ==
    \A s \in Sessions :
       /\ IsPrefix(intDelivered[s], SentFrames(extSent[s]))
       /\ IsPrefix(extDelivered[s], intSent[s])

\* A session has forwarded two messages of different kinds to the backend.
C4_Witness ==
    \E s \in Sessions :
       /\ Len(intDelivered[s]) = 2
       /\ intDelivered[s][1].kind # intDelivered[s][2].kind

\* C5: once the internal connection of a relaying session has dropped, the
\* session closes the external connection, whatever the external peer does.
C5_DropClosesExternal ==
    \A s \in Sessions : intDropped[s] ~> ~extOpen[s]

\* C6: once the external peer has closed while the session relays, the
\* session closes the internal connection, whatever the backend does.
C6_PeerCloseClosesInternal ==
    \A s \in Sessions : (peerClosed[s] /\ intOpen[s]) ~> ~intOpen[s]

\* C7: when websocket_handler has returned, the external connection and the
\* internal connection are closed.
C7_BothClosedAtReturn ==
    \A s \in Sessions : pc[s] = "done" => ~extOpen[s] /\ ~intOpen[s]

\* C8: ensure_whisper_server does not report ready for a backend it spawned
\* that has exited during the grace period.
C8_FailedStartReported ==
    \A s \in Sessions : ensureRet[s].res = "ready" => ensureRet[s].ownAlive

\* C9: when ensure_whisper_server fails, the handler has ended with the
\* external connection closed, no internal connection and no loop started.
C9_EnsureFailureClosesWithoutRelay ==
    \A s \in Sessions :
       ensureRet[s].res = "error" =>
          /\ pc[s] = "done"
          /\ ~extOpen[s]
          /\ ~intOpen[s]
          /\ ~relayed[s]
          /\ c2s[s] = "idle"
          /\ s2c[s] = "idle"

C9_Witness ==
    \E s \in Sessions : ensureRet[s].res = "error" /\ pc[s] = "done"

\* C10: a failed backend start (Popen raises, or the tracked process exits
\* before it ever listened) leaves the handle such that the next
\* ensure_whisper_server spawns; a start that raises changes neither the
\* handle nor the processes nor any other session.
SessionState(t) ==
    <<pc[t], extOpen[t], peerClosed[t], intOpen[t], intDropped[t], relayed[t],
      c2s[t], s2c[t], extSent[t], intDelivered[t], intSent[t], extDelivered[t],
      ensureRet[t], mine[t]>>

StartRaises(s) == ensureRet[s].res = "none" /\ ensureRet'[s].res = "error"

StartExits(p) ==
    /\ p = whisper_server
    /\ procs[p].alive /\ ~procs[p].listening
    /\ ~procs'[p].alive

C10_FailedStartIsLocal ==
    [][/\ \A s \in Sessions :
             StartRaises(s) =>
                /\ whisper_server' = whisper_server
                /\ procs' = procs
                /\ NeedsSpawn(whisper_server)'
                /\ \A t \in Sessions \ {s} : SessionState(t)' = SessionState(t)
       /\ \A p \in DOMAIN procs :
             StartExits(p) => whisper_server' = p /\ NeedsSpawn(whisper_server)'
      ]_vars

\* A start has failed while another session relays and the backend it used
\* is gone: the next upgrade will spawn.
C10_Witness ==
    \E s, t \in Sessions :
       /\ ensureRet[s].res = "error"
       /\ pc[t] = "relaying"
       /\ NeedsSpawn(whisper_server)

\* C11: GET and HEAD /health answer 200 in every state, also when no backend
\* was ever started or the backend has crashed, and change neither the
\* tracked handle nor the processes nor any session.
HealthStep == httpResp' # httpResp /\ httpResp'.path = "/health"

C11_HealthAlways200 ==
    [][HealthStep =>
          /\ httpResp'.status = 200
          /\ httpResp'.method \in {"GET", "HEAD"}
          /\ UNCHANGED <<supVars, pc, connVars, msgVars>>
      ]_vars

\* A health check has been answered 200 while the tracked backend is dead.
C11_Witness ==
    /\ httpResp.path = "/health"
    /\ httpResp.method = "HEAD"
    /\ httpResp.status = 200
    /\ whisper_server # 0
    /\ NeedsSpawn(whisper_server)

\* C12: a GET / without upgrade spawns nothing and opens no connection; as
\* long as no upgrade request has arrived, the handle is unset and no process
\* exists.
PlainGetStep == httpResp' # httpResp /\ httpResp'.path = "/"

C12_PlainGetNeverSpawns ==
    [][/\ PlainGetStep => UNCHANGED <<supVars, pc, connVars, msgVars>>
       /\ (\A s \in Sessions : pc'[s] = "idle") => whisper_server' = 0 /\ procs' = << >>
      ]_vars

\* A plain GET has been answered and still nothing was spawned.
C12_Witness ==
    /\ httpResp.path = "/"
    /\ httpResp.status = 200
    /\ whisper_server = 0
    /\ procs = << >>

\* C13: an upgrade that finds the tracked backend alive and past its grace
\* period spawns nothing, does not wait, leaves the handle as it is, and the
\* session relays.
ArrivesPastGrace(s) ==
    /\ pc[s] = "idle"
    /\ pc'[s] # "idle"
    /\ IF NeedsSpawn(whisper_server) THEN FALSE ELSE procs[whisper_server].age >= GRACE

ReturnsAtOnce(s) ==
    /\ whisper_server' = whisper_server
    /\ procs' = procs
    /\ mine'[s] = 0
    /\ ensureRet'[s].res = "ready"
    /\ pc'[s] # "sleeping"

C13_AliveBackendRelaysAtOnce ==
    [][\A s \in Sessions :
          ArrivesPastGrace(s) => ReturnsAtOnce(s) /\ pc'[s] = "relaying"
      ]_vars

\* C13 as amended: the session relays when the backend listens on the
\* internal port; when it does not, the connect is refused and the handler
\* returns without relaying.
C13_AliveBackendReturnsAtOnce ==
    [][\A s \in Sessions :
          ArrivesPastGrace(s) =>
             /\ ReturnsAtOnce(s)
             /\ IF Listening # {}
                THEN pc'[s] = "relaying" /\ intOpen'[s] /\ relayed'[s]
                ELSE pc'[s] = "done" /\ ~intOpen'[s] /\ ~relayed'[s]
      ]_vars

\* A session that arrived past the grace period of a live, listening backend
\* relays without having spawned or waited.
C13_Witness ==
    \E s \in Sessions :
       /\ pc[s] = "relaying"
       /\ mine[s] = 0
       /\ ensureRet[s].res = "ready"
       /\ ensureRet[s].age >= GRACE

\* C14: once a termination signal has ended the wrapper, no backend process
\* it spawned is alive.
C14_BackendGoneAfterShutdown == ~running => Alive = {}

\* C15: a process is spawned only by an upgrade request's
\* ensure_whisper_server, one at a time and only when nothing is tracked or
\* the tracked process has exited; an upgrade that finds it so spawns the
\* replacement (or Popen raises).
Spawns(s) == pc[s] = "idle" /\ pc'[s] = "sleeping" /\ mine'[s] = Len(procs')

C15_SpawnOnlyOnDemand ==
    [][/\ procs' # procs /\ Len(procs') # Len(procs) =>
             /\ NeedsSpawn(whisper_server)
             /\ Len(procs') = Len(procs) + 1
             /\ whisper_server' = Len(procs')
             /\ \E s \in Sessions : Spawns(s)
       /\ \A s \in Sessions :
             (pc[s] = "idle" /\ pc'[s] # "idle" /\ NeedsSpawn(whisper_server)) =>
                \/ Spawns(s) /\ Len(procs') = Len(procs) + 1
                \/ ensureRet'[s].res = "error" /\ procs' = procs
      ]_vars

\* The first backend has exited and a later upgrade has spawned the one
\* replacement, which is tracked.
C15_Witness ==
    /\ Len(procs) = 2
    /\ ~procs[1].alive
    /\ procs[2].alive
    /\ whisper_server = 2
    /\ mine[2] = 2

\* C16: proxy_websocket returns only when both loops are over, and the end
\* of one loop leaves the other running.
C16_ReturnsAfterBothLoops ==
    [][\A s \in Sessions :
          /\ (pc'[s] = "done" /\ relayed'[s]) => c2s'[s] = "done" /\ s2c'[s] = "done"
          /\ (c2s[s] = "run" /\ c2s'[s] = "done" /\ s2c[s] = "run") =>
                s2c'[s] = "run" /\ pc'[s] = "relaying"
          /\ (s2c[s] = "run" /\ s2c'[s] = "done" /\ c2s[s] = "run") =>
                c2s'[s] = "run" /\ pc'[s] = "relaying"
      ]_vars

\* client_to_server is over and server_to_client still runs in a session that
\* has not returned.
C16_Witness ==
    \E s \in Sessions : pc[s] = "relaying" /\ c2s[s] = "done" /\ s2c[s] = "run"

\* C17: a read or write failure ends only the loop it happens in: the other
\* loop is left as it is, what it has delivered stays, and the error does not
\* leave proxy_websocket (the handler's except does not close ws, the session
\* returns only if the other loop was over already).
Received(old, new) == Len(new) = Len(old) + 1

C2SWriteFails(s) ==
    /\ c2s[s] = "run"
    /\ Received(extSent[s], extSent'[s])
    /\ IsTextOrBinary(extSent'[s][Len(extSent'[s])])
    /\ ~intOpen[s]

S2CWriteFails(s) ==
    /\ s2c[s] = "run"
    /\ Received(intSent[s], intSent'[s])
    /\ ~extOpen[s]

S2CReadFails(s) == s2c[s] = "run" /\ intOpen[s] /\ ~intOpen'[s] /\ intDropped'[s]

C17_FailureEndsOneLoopOnly ==
    [][\A s \in Sessions :
          /\ C2SWriteFails(s) =>
                /\ c2s'[s] = "done" /\ s2c'[s] = s2c[s]
                /\ extOpen'[s] = extOpen[s]
                /\ intDelivered'[s] = intDelivered[s] /\ extDelivered'[s] = extDelivered[s]
                /\ pc'[s] = IF s2c[s] = "done" THEN "done" ELSE "relaying"
          /\ S2CWriteFails(s) =>
                /\ s2c'[s] = "done" /\ c2s'[s] = c2s[s]
                /\ extOpen'[s] = extOpen[s]
                /\ intDelivered'[s] = intDelivered[s] /\ extDelivered'[s] = extDelivered[s]
                /\ pc'[s] = IF c2s[s] = "done" THEN "done" ELSE "relaying"
          /\ S2CReadFails(s) =>
                /\ s2c'[s] = "done" /\ c2s'[s] = c2s[s]
                /\ extOpen'[s] = extOpen[s]
                /\ intDelivered'[s] = intDelivered[s] /\ extDelivered'[s] = extDelivered[s]
                /\ pc'[s] = IF c2s[s] = "done" THEN "done" ELSE "relaying"
      ]_vars

\* A send to the dropped internal connection has failed after a message was
\* forwarded: client_to_server is over, the handler has returned and has not
\* closed the external connection.
C17_Witness ==
    \E s \in Sessions :
       /\ intDropped[s]
       /\ Len(extSent[s]) = 2
       /\ Len(intDelivered[s]) = 1
       /\ IsTextOrBinary(extSent[s][2])
       /\ c2s[s] = "done" /\ s2c[s] = "done"
       /\ extOpen[s]

\* C18: a message that is neither TEXT nor BINARY is never forwarded: ERROR
\* ends client_to_server, any other type is dropped and the loop goes on; the
\* backend receives no more frames than TEXT and BINARY messages were sent.
C18_OnlyTextAndBinaryForwarded ==
    [][\A s \in Sessions :
          Received(extSent[s], extSent'[s]) =>
             LET m == extSent'[s][Len(extSent'[s])] IN
             /\ ~IsTextOrBinary(m) =>
                   /\ intDelivered'[s] = intDelivered[s]
                   /\ c2s'[s] = IF m.type = "ERROR" THEN "done" ELSE "run"
             /\ Len(intDelivered'[s]) <= Len(SelectSeq(extSent'[s], IsTextOrBinary))
      ]_vars

\* A PONG was dropped and the loop went on to forward the next message.
C18_Witness ==
    \E s \in Sessions :
       /\ Len(extSent[s]) = 2
       /\ extSent[s][1].type = "PONG"
       /\ IsTextOrBinary(extSent[s][2])
       /\ Len(intDelivered[s]) = 1

\* C19: a request refused by the validation is answered 400 with no temporary
\* file created and the model not called, and when a response has been
\* returned no temporary file is left.
C19_NoTempFileLeft ==
    (api.pc = "idle" /\ api.served > 0) =>
       /\ Rejected(api.req) => api.status = 400 /\ ~api.created /\ ~api.called
       /\ api.temps = 0

====
